---- MODULE Spec2Model ----
(***************************************************************************)
(* Model of FreeRTOS/portable/MemMang/heap_777.c: a pool (size class)      *)
(* allocator over one static arena.  pvPortMalloc, vPortFree,              *)
(* xPortGetFreeHeapSize, prvHeapInit and xPortPoolInit are translated from *)
(* the source.  Addresses are integers, NULL is 0.                         *)
(*                                                                         *)
(* Memory the source reads without owning it is modelled as memory with an *)
(* arbitrary but fixed content, chosen in Init:                            *)
(*   - xPool[heapMAXIMUM_POOL_NUM], the two words behind the xPool array,  *)
(*     which pvPortMalloc indexes when its search loop finds no pool;      *)
(*   - the pxNext word of the block that slot's pxFirstFree points to.     *)
(* A block carved past the end of ucHeap is modelled as ordinary memory    *)
(* behind the array.  size_t arithmetic is done on plain integers: a wrap  *)
(* of the unsigned counter would show as a negative value.                 *)
(***************************************************************************)
EXTENDS Integers, Sequences, FiniteSets, TLC

(* ------------------------- configuration ------------------------------ *)

\* FreeRTOSConfig.h: size of ucHeap in bytes (small, to bound the model).
configTOTAL_HEAP_SIZE == 1030

\* portmacro.h: required alignment of every block (a power of two).
portBYTE_ALIGNMENT == 8

\* FreeRTOSConfig.h: configUSE_MALLOC_FAILED_HOOK == 1, the hook is built in.
configUSE_MALLOC_FAILED_HOOK == TRUE

NULL == 0

pdFALSE == 0

pdTRUE == 1

\* sizeof( Block_t ): two pointers on the 32-bit target.
SizeofBlock_t == 8

heapMAXIMUM_POOL_NUM == 10

\* const size_t xSizeList[heapMAXIMUM_POOL_NUM]; C index i is xSizeList[i + 1].
xSizeList == <<100, 150, 200, 250, 300, 350, 400, 450, 500, 1000>>

\* x & ~portBYTE_ALIGNMENT_MASK
MaskDown(x) == x - (x % portBYTE_ALIGNMENT)

\* x & portBYTE_ALIGNMENT_MASK
MaskBits(x) == x % portBYTE_ALIGNMENT

heapSTRUCT_SIZE == MaskDown(SizeofBlock_t + (portBYTE_ALIGNMENT - 1))

configADJUSTED_HEAP_SIZE == configTOTAL_HEAP_SIZE - portBYTE_ALIGNMENT

(* ------------------------- model bounds ------------------------------- *)

\* Addresses the linker may give ucHeap: one aligned, one not.
UcHeapAddrs == {536870912, 536870915}

\* Request sizes the callers use: 0, sizes of two pools (500 and 1000) and two
\* sizes no pool fits.
Sizes == {0, 451, 500, 1000, 1001, 2100}

\* Blocks carved in one run: while the memory behind xPool reads as a pool of
\* block size 0, requests that no pool fits carve without end.
MaxBlocks == 3

\* Contents the memory behind xPool may have: its pxFirstFree word ...
OobFirstFreeValues == {NULL, 17}

\* ... and its xBlockSize word: zero, or a word as large as the free byte count.
OobBlockSizeValues == {0, configADJUSTED_HEAP_SIZE}

(* ------------------------- state -------------------------------------- *)

VARIABLES
    ucHeapAddr,                 \* &ucHeap[0], fixed by the linker
    xHeapHasBeenInitialised,
    xPoolHasBeenInitialised,
    xPool,                      \* 0 .. 9: the array; 10: the memory behind it
    pxFreeHeap,                 \* the carve cursor
    xFreeBytesRemaining,
    hdr,                        \* Block_t headers written in (or behind) ucHeap
    strayNext,                  \* pxNext word of a block the allocator never wrote
    uxSchedulerSuspended,       \* nesting depth of vTaskSuspendAll
    taskPc,                     \* per task: "idle", or "hook": pvPortMalloc after
                                \* xTaskResumeAll
    taskRet,                    \* per task: pvPortMalloc's local pvReturn
    held,                       \* per task: the pointers it holds
    heapInits,                  \* runs of prvHeapInit so far (counted up to 2)
    poolInits,                  \* runs of xPortPoolInit's pool loop so far (up to 2)
    cur,                        \* the operation running or last run; lifo: the class
                                \* of the malloc, free, malloc sequence it is part of
    nSuspend,                   \* calls of vTaskSuspendAll made by that operation
    maxNest,                    \* deepest uxSchedulerSuspended during that operation
    hookCalls,                  \* calls of vApplicationMallocFailedHook by that operation
    blkSize,                    \* bytes the cursor advanced by when a header was carved
    soleClass                   \* the one pool all operations so far allocated from

vars == <<ucHeapAddr, xHeapHasBeenInitialised, xPoolHasBeenInitialised, xPool,
          pxFreeHeap, xFreeBytesRemaining, hdr, strayNext, uxSchedulerSuspended,
          taskPc, taskRet, held, heapInits, poolInits, cur, nSuspend, maxNest,
          hookCalls, blkSize, soleClass>>

\* The tasks that call the allocator; Caller is the one of the sequential runs.
Tasks == {"A", "B"}

Caller == "A"

\* The caller's position and its pvReturn; the pointers handed out and not freed.
pc == taskPc[Caller]

pvReturn == taskRet[Caller]

live == UNION {held[t] : t \in Tasks}

\* Marks "no pool" in the bookkeeping of the operations (never a C value).
NoPool == heapMAXIMUM_POOL_NUM + 1

\* &ucHeap[ configTOTAL_HEAP_SIZE ]: the first address behind the arena.
ArenaEnd == ucHeapAddr + configTOTAL_HEAP_SIZE

\* The allocator's state as one record, threaded through the C statements.
AllocState ==
    [heapInit |-> xHeapHasBeenInitialised,
     poolInit |-> xPoolHasBeenInitialised,
     pools    |-> xPool,
     cursor   |-> pxFreeHeap,
     rem      |-> xFreeBytesRemaining,
     hdr      |-> hdr,
     susp     |-> uxSchedulerSuspended,
     nSusp    |-> 0,
     nest     |-> uxSchedulerSuspended,
     nHeapInit |-> heapInits,
     nPoolInit |-> poolInits]

\* A count of runs that stops at 2: once, or more than once.
CountUp(n) == IF n < 2 THEN n + 1 ELSE n

(* ------------------------- scheduler ---------------------------------- *)

\* vTaskSuspendAll(): ++uxSchedulerSuspended.
vTaskSuspendAll(st) ==
    [st EXCEPT !.susp = @ + 1,
               !.nSusp = @ + 1,
               !.nest = IF st.susp + 1 > @ THEN st.susp + 1 ELSE @]

\* xTaskResumeAll(): --uxSchedulerSuspended.
xTaskResumeAll(st) == [st EXCEPT !.susp = @ - 1]

(* ------------------------- headers ------------------------------------ *)

\* pxBlock->pxNext
HdrNext(h, a) == IF a \in DOMAIN h THEN h[a].pxNext ELSE strayNext

\* pxBlock->pxPool, as an index into xPool.  The callers free only blocks whose
\* header the allocator wrote.
HdrPool(h, a) == IF a \in DOMAIN h THEN h[a].pxPool ELSE heapMAXIMUM_POOL_NUM

\* pxBlock->pxPool = &xPool[ iter ], on a block that may be new to the model.
WritePool(h, a, iter) ==
    IF a \in DOMAIN h
    THEN [h EXCEPT ![a].pxPool = iter]
    ELSE [x \in DOMAIN h \cup {a} |->
            IF x = a THEN [pxPool |-> iter, pxNext |-> NULL] ELSE h[x]]

\* pxBlock->pxNext = next
WriteNext(h, a, next) ==
    IF a \in DOMAIN h THEN [h EXCEPT ![a].pxNext = next] ELSE h

(* ------------------------- prvHeapInit -------------------------------- *)

\* ( &ucHeap[ portBYTE_ALIGNMENT ] ) & ~portBYTE_ALIGNMENT_MASK
pucAlignedHeap == MaskDown(ucHeapAddr + portBYTE_ALIGNMENT)

\* prvHeapInit().  The BlockLink_t written over the first bytes of the arena
\* ( pxNextFreeBlock = &xEnd, xBlockSize = configADJUSTED_HEAP_SIZE ) lies where
\* the first Block_t header will be: pxPool reads as &xEnd (NoPool), pxNext as
\* the heap size.  xStart and xEnd are read by no pool operation.
prvHeapInit(st) ==
    [st EXCEPT !.cursor = pucAlignedHeap,
               !.nHeapInit = CountUp(@),
               !.hdr = [x \in DOMAIN st.hdr \cup {pucAlignedHeap} |->
                          IF x = pucAlignedHeap
                          THEN [pxPool |-> NoPool, pxNext |-> configADJUSTED_HEAP_SIZE]
                          ELSE st.hdr[x]]]

(* ------------------------- xPortPoolInit ------------------------------ *)

\* Mutant of AlreadyInitialised: the test of xPoolHasBeenInitialised is left out.
AlreadyInitialisedNever(st) == FALSE

\* if (xPoolHasBeenInitialised == pdTRUE) return pdFALSE;
AlreadyInitialised(st) == st.poolInit = TRUE

\* The loop over the heapMAXIMUM_POOL_NUM pools; the memory behind the array
\* is not written.
InitialisedPools(pools, pxSizeList) ==
    [i \in DOMAIN pools |->
        IF i < heapMAXIMUM_POOL_NUM
        THEN [pxFirstFree |-> NULL, xBlockSize |-> pxSizeList[i + 1]]
        ELSE pools[i]]

\* xPortPoolInit( pxSizeList ): the value returned and the state left.
xPortPoolInit(st, pxSizeList) ==
    IF AlreadyInitialised(st)
    THEN [ret |-> pdFALSE, st |-> st]
    ELSE LET s1 == vTaskSuspendAll(st)
             s2 == IF s1.heapInit = FALSE
                   THEN [prvHeapInit(s1) EXCEPT !.heapInit = TRUE]
                   ELSE s1
             s3 == [s2 EXCEPT !.pools = InitialisedPools(s2.pools, pxSizeList),
                              !.poolInit = TRUE,
                              !.nPoolInit = CountUp(@)]
         IN  [ret |-> pdTRUE, st |-> xTaskResumeAll(s3)]

(* ------------------------- pvPortMalloc ------------------------------- *)

\* for (iter = 0; iter < 10; ++iter) if (xPool[iter].xBlockSize >= xWantedSize) break;
\* iter is 10 when the loop ends without a break.
FindPool(pools, xWantedSize) ==
    IF \E i \in 0 .. 9 : pools[i].xBlockSize >= xWantedSize
    THEN CHOOSE i \in 0 .. 9 :
            /\ pools[i].xBlockSize >= xWantedSize
            /\ \A j \in 0 .. (i - 1) : pools[j].xBlockSize < xWantedSize
    ELSE 10

\* if( xWantedSize > 0 ) { ... } : iter after the search, 0 when it is skipped.
PoolIndex(pools, xWantedSize) ==
    IF xWantedSize > 0 THEN FindPool(pools, xWantedSize) ELSE 0

\* Mutant of AlignSize: the wanted size is not rounded up.
AlignSizeNone(w) == w

\* Byte alignment of the wanted size.
AlignSize(w) ==
    IF MaskBits(w) # 0 THEN w + (portBYTE_ALIGNMENT - MaskBits(w)) ELSE w

\* xWantedSize when the if( xWantedSize > 0 ) block is left: the size of the
\* pool found (the request itself when none was) plus the header, aligned.
AdjustedSize(pools, iter, xWantedSize) ==
    IF xWantedSize > 0
    THEN AlignSize((IF iter < 10 THEN pools[iter].xBlockSize ELSE xWantedSize)
                   + heapSTRUCT_SIZE)
    ELSE xWantedSize

\* Mutant of Admitted: the test xWantedSize > 0 is left out.
AdmittedNoZeroTest(w, rem) == w < rem

\* Mutant of Admitted: the test against xFreeBytesRemaining is left out.
AdmittedNoCapacityTest(w, rem) == w > 0

\* if( ( xWantedSize > 0 ) && ( xWantedSize < xFreeBytesRemaining ) )
Admitted(w, rem) == (w > 0) /\ (w < rem)

\* Mutant of PopBlock: the address of the header is returned, not the address
\* behind it.
PopBlockNoOffset(st, iter) ==
    LET first == st.pools[iter].pxFirstFree
    IN  [ret |-> first,
         st  |-> [st EXCEPT !.pools[iter].pxFirstFree = HdrNext(st.hdr, first)],
         carved |-> NULL]

\* The block taken from the pool's list: xPool[iter].pxFirstFree is unlinked.
PopBlock(st, iter) ==
    LET first == st.pools[iter].pxFirstFree
    IN  [ret |-> first + heapSTRUCT_SIZE,
         st  |-> [st EXCEPT !.pools[iter].pxFirstFree = HdrNext(st.hdr, first)],
         carved |-> NULL]

\* The block split off the unallocated heap at pxFreeHeap.
CarveBlock(st, iter, w) ==
    [ret |-> st.cursor + heapSTRUCT_SIZE,
     st  |-> [st EXCEPT !.hdr = WritePool(st.hdr, st.cursor, iter),
                        !.cursor = st.cursor + w],
     carved |-> st.cursor]

\* xFreeBytesRemaining -= xPool[iter].xBlockSize;
ChargeBlock(st, iter) == [st EXCEPT !.rem = @ - st.pools[iter].xBlockSize]

\* Mutant of HeapUninitialised: the test of xHeapHasBeenInitialised is left out.
HeapUninitialisedAlways(st) == TRUE

\* if( xHeapHasBeenInitialised == pdFALSE )
HeapUninitialised(st) == st.heapInit = FALSE

\* Mutant of MallocLocked: a pool with a free block serves the request without
\* the test against xFreeBytesRemaining.
MallocLockedReuseUnchecked(st, xWantedSize) ==
    LET s1 == IF HeapUninitialised(st)
              THEN xPortPoolInit([prvHeapInit(st) EXCEPT !.heapInit = TRUE],
                                 xSizeList).st
              ELSE st
        iter == PoolIndex(s1.pools, xWantedSize)
        w == AdjustedSize(s1.pools, iter, xWantedSize)
    IN  IF Admitted(w, s1.rem) \/ (w > 0 /\ s1.pools[iter].pxFirstFree # NULL)
        THEN LET got == IF s1.pools[iter].pxFirstFree # NULL
                        THEN PopBlock(s1, iter)
                        ELSE CarveBlock(s1, iter, w)
             IN  [got EXCEPT !.st = ChargeBlock(got.st, iter)]
                    @@ [iter |-> iter, w |-> w]
        ELSE [ret |-> NULL, st |-> s1, carved |-> NULL, iter |-> iter, w |-> w]

\* The part of pvPortMalloc between vTaskSuspendAll and xTaskResumeAll.
MallocLocked(st, xWantedSize) ==
    LET s1 == IF HeapUninitialised(st)
              THEN xPortPoolInit([prvHeapInit(st) EXCEPT !.heapInit = TRUE],
                                 xSizeList).st
              ELSE st
        iter == PoolIndex(s1.pools, xWantedSize)
        w == AdjustedSize(s1.pools, iter, xWantedSize)
    IN  IF Admitted(w, s1.rem)
        THEN LET got == IF s1.pools[iter].pxFirstFree # NULL
                        THEN PopBlock(s1, iter)
                        ELSE CarveBlock(s1, iter, w)
             IN  [got EXCEPT !.st = ChargeBlock(got.st, iter)]
                    @@ [iter |-> iter, w |-> w]
        ELSE [ret |-> NULL, st |-> s1, carved |-> NULL, iter |-> iter, w |-> w]

\* pvPortMalloc up to and including xTaskResumeAll.
pvPortMalloc(st, xWantedSize) ==
    LET r == MallocLocked(vTaskSuspendAll(st), xWantedSize)
    IN  [r EXCEPT !.st = xTaskResumeAll(r.st)]

\* Mutant of HookDue: the hook is called whatever pvReturn is.
HookDueAlways(p) == configUSE_MALLOC_FAILED_HOOK

\* if( pvReturn == NULL ) vApplicationMallocFailedHook();
HookDue(p) == configUSE_MALLOC_FAILED_HOOK /\ p = NULL

(* ------------------------- vPortFree ---------------------------------- *)

\* Mutant of FreeGuard: the test for NULL is left out.
FreeGuardNone(pv) == TRUE

\* if( pv != NULL )
FreeGuard(pv) == pv # NULL

\* Mutant of PushBlock: the block goes to the list of the first pool, whatever
\* its header names.
PushBlockFirstPool(st, pxLink) ==
    [st EXCEPT !.hdr = WriteNext(st.hdr, pxLink, st.pools[0].pxFirstFree),
               !.pools[0].pxFirstFree = pxLink]

\* Mutant of PushBlock: the pool's pxFirstFree is not set to the block.
PushBlockNoHead(st, pxLink) ==
    [st EXCEPT !.hdr = WriteNext(st.hdr, pxLink,
                                 st.pools[HdrPool(st.hdr, pxLink)].pxFirstFree)]

\* pxLink->pxNext = pxLink->pxPool->pxFirstFree; pxLink->pxPool->pxFirstFree = pxLink;
PushBlock(st, pxLink) ==
    LET pool == HdrPool(st.hdr, pxLink)
    IN  [st EXCEPT !.hdr = WriteNext(st.hdr, pxLink, st.pools[pool].pxFirstFree),
                   !.pools[pool].pxFirstFree = pxLink]

\* Mutant of RefundBlock: the header's size is refunded with the block's.
RefundBlockWithHeader(st, pxLink) ==
    [st EXCEPT !.rem = @ + st.pools[HdrPool(st.hdr, pxLink)].xBlockSize
                         + heapSTRUCT_SIZE]

\* xFreeBytesRemaining += pxLink->pxPool->xBlockSize;
RefundBlock(st, pxLink) ==
    [st EXCEPT !.rem = @ + st.pools[HdrPool(st.hdr, pxLink)].xBlockSize]

\* vPortFree( pv )
vPortFree(st, pv) ==
    IF FreeGuard(pv)
    THEN LET pxLink == pv - heapSTRUCT_SIZE
             s1 == vTaskSuspendAll(st)
             s2 == PushBlock(s1, pxLink)
             s3 == RefundBlock(s2, pxLink)
         IN  xTaskResumeAll(s3)
    ELSE st

\* xPortGetFreeHeapSize()
xPortGetFreeHeapSize == xFreeBytesRemaining

(* ------------------------- the callers -------------------------------- *)

\* The pool of the ascending table that a request of s bytes resolves to, as the
\* callers reckon it from xSizeList; NoPool when there is none.
ClassOf(s) ==
    IF s > 0 /\ \E i \in 1 .. heapMAXIMUM_POOL_NUM : xSizeList[i] >= s
    THEN (CHOOSE i \in 1 .. heapMAXIMUM_POOL_NUM :
            /\ xSizeList[i] >= s
            /\ \A j \in 1 .. heapMAXIMUM_POOL_NUM :
                    xSizeList[j] >= s => xSizeList[i] <= xSizeList[j]) - 1
    ELSE NoPool

\* Marks, in soleClass, a history that is not a run of allocations of one pool.
Mixed == NoPool + 1

\* Pointers task t may pass to vPortFree: NULL, and what pvPortMalloc returned
\* to it with a header the allocator wrote (freeing the stray pointer that the
\* memory behind xPool may yield is left out: its header is not the allocator's).
Freeable(t) == {NULL} \cup {p \in held[t] : (p - heapSTRUCT_SIZE) \in DOMAIN hdr}

Init ==
    /\ ucHeapAddr \in UcHeapAddrs
    /\ xHeapHasBeenInitialised = FALSE
    /\ xPoolHasBeenInitialised = FALSE
    /\ \E f \in OobFirstFreeValues, b \in OobBlockSizeValues :
          xPool = [i \in 0 .. heapMAXIMUM_POOL_NUM |->
                     IF i < heapMAXIMUM_POOL_NUM
                     THEN [pxFirstFree |-> NULL, xBlockSize |-> 0]
                     ELSE [pxFirstFree |-> f, xBlockSize |-> b]]
    /\ pxFreeHeap = NULL
    /\ xFreeBytesRemaining = configADJUSTED_HEAP_SIZE
    /\ hdr = [x \in {} |-> 0]
    /\ strayNext \in (IF xPool[heapMAXIMUM_POOL_NUM].pxFirstFree = NULL
                       THEN {NULL}
                       ELSE OobFirstFreeValues)
    /\ uxSchedulerSuspended = 0
    /\ taskPc = [t \in Tasks |-> "idle"]
    /\ taskRet = [t \in Tasks |-> NULL]
    /\ held = [t \in Tasks |-> {}]
    /\ heapInits = 0
    /\ poolInits = 0
    /\ cur = [op |-> "none", arg |-> 0, ret |-> NULL, lifo |-> NoPool]
    /\ nSuspend = 0
    /\ maxNest = 0
    /\ hookCalls = 0
    /\ blkSize = [x \in {} |-> 0]
    /\ soleClass = NoPool

\* The allocator's variables take the values of the record st.
Store(st) ==
    /\ xHeapHasBeenInitialised' = st.heapInit
    /\ xPoolHasBeenInitialised' = st.poolInit
    /\ xPool' = st.pools
    /\ pxFreeHeap' = st.cursor
    /\ xFreeBytesRemaining' = st.rem
    /\ hdr' = st.hdr
    /\ uxSchedulerSuspended' = st.susp
    /\ nSuspend' = st.nSusp
    /\ maxNest' = st.nest
    /\ heapInits' = st.nHeapInit
    /\ poolInits' = st.nPoolInit

\* What the sequential runs record of the last operation.
history == <<cur, hookCalls, soleClass>>

\* Task t calls pvPortMalloc( s ) and runs it to the end of the suspended part:
\* the scheduler is suspended, so no other task runs in between.  A call that
\* would carve block number MaxBlocks + 1 is not made.
MallocCore(t, s) ==
    /\ taskPc[t] = "idle"
    /\ LET r == pvPortMalloc(AllocState, s)
       IN  /\ r.carved # NULL => Cardinality(DOMAIN blkSize) < MaxBlocks
           /\ Store(r.st)
           /\ taskRet' = [taskRet EXCEPT ![t] = r.ret]
           /\ blkSize' = IF r.carved # NULL
                         THEN [x \in DOMAIN blkSize \cup {r.carved} |->
                                 IF x = r.carved THEN r.w ELSE blkSize[x]]
                         ELSE blkSize
    /\ taskPc' = [taskPc EXCEPT ![t] = "hook"]
    /\ UNCHANGED <<ucHeapAddr, strayNext, held>>

\* The rest of pvPortMalloc in task t: the failed hook (counted by the
\* sequential runs), and the return to the caller.
ExitCore(t) ==
    /\ taskPc[t] = "hook"
    /\ held' = IF taskRet[t] # NULL
               THEN [held EXCEPT ![t] = @ \cup {taskRet[t]}]
               ELSE held
    /\ taskRet' = [taskRet EXCEPT ![t] = NULL]
    /\ taskPc' = [taskPc EXCEPT ![t] = "idle"]
    /\ UNCHANGED <<ucHeapAddr, xHeapHasBeenInitialised, xPoolHasBeenInitialised,
                   xPool, pxFreeHeap, xFreeBytesRemaining, hdr, strayNext,
                   uxSchedulerSuspended, heapInits, poolInits, nSuspend, maxNest,
                   blkSize>>

\* Task t calls vPortFree( pv ) with NULL or a pointer it holds.
FreeCore(t, pv) ==
    /\ taskPc[t] = "idle"
    /\ pv \in Freeable(t)
    /\ Store(vPortFree(AllocState, pv))
    /\ held' = [held EXCEPT ![t] = @ \ {pv}]
    /\ UNCHANGED <<ucHeapAddr, strayNext, taskPc, taskRet, blkSize>>

\* The caller's pvPortMalloc( s ), up to xTaskResumeAll.
MallocBody(s) ==
    /\ MallocCore(Caller, s)
    /\ cur' = [op |-> "malloc", arg |-> s, ret |-> pvReturn',
               lifo |-> IF cur.op = "free" /\ cur.lifo = ClassOf(s)
                        THEN cur.lifo
                        ELSE NoPool]
    /\ soleClass' = IF s > 0 /\ soleClass \in {NoPool, PoolIndex(xPool', s)}
                    THEN PoolIndex(xPool', s)
                    ELSE Mixed
    /\ hookCalls' = 0

\* The rest of the caller's pvPortMalloc.
MallocExit ==
    /\ ExitCore(Caller)
    /\ hookCalls' = IF HookDue(pvReturn) THEN hookCalls + 1 ELSE hookCalls
    /\ UNCHANGED <<cur, soleClass>>

\* The caller's vPortFree( pv ).
Free(pv) ==
    /\ FreeCore(Caller, pv)
    /\ cur' = [op |-> "free", arg |-> pv, ret |-> NULL,
               lifo |-> IF pv # NULL /\ cur.op = "malloc" /\ cur.ret = pv
                        THEN ClassOf(cur.arg)
                        ELSE NoPool]
    /\ hookCalls' = 0
    /\ soleClass' = Mixed

\* xPortPoolInit( xSizeList ) called on its own, as the class-table setup.
PoolInit ==
    /\ pc = "idle"
    /\ LET r == xPortPoolInit(AllocState, xSizeList)
       IN  /\ Store(r.st)
           /\ cur' = [op |-> "poolinit", arg |-> 0, ret |-> r.ret, lifo |-> NoPool]
    /\ hookCalls' = 0
    /\ UNCHANGED <<ucHeapAddr, strayNext, taskPc, taskRet, held, blkSize, soleClass>>

Next ==
    \/ \E s \in Sizes : MallocBody(s)
    \/ MallocExit
    \/ \E pv \in Freeable(Caller) : Free(pv)
    \/ PoolInit

Spec == Init /\ [][Next]_vars

(* ------------------------- several tasks ------------------------------ *)

\* The runs of several tasks carve one block fewer than the sequential runs.
MaxTaskBlocks == MaxBlocks - 1

\* Task t in pvPortMalloc( s ), in the rest of it, in vPortFree( pv ).  A task
\* is preempted only while the scheduler is not suspended: between these steps.
TaskMalloc(t, s) ==
    /\ MallocCore(t, s)
    /\ Cardinality(DOMAIN blkSize') <= MaxTaskBlocks
    /\ UNCHANGED history

TaskExit(t) == ExitCore(t) /\ UNCHANGED history

TaskFree(t, pv) == FreeCore(t, pv) /\ UNCHANGED history

NextTasks ==
    \/ \E t \in Tasks, s \in Sizes : TaskMalloc(t, s)
    \/ \E t \in Tasks : TaskExit(t)
    \/ \E t \in Tasks : \E pv \in Freeable(t) : TaskFree(t, pv)

SpecTasks == Init /\ [][NextTasks]_vars

(* ------------------------- vocabulary of the properties ---------------- *)

\* A step that runs the suspended part of pvPortMalloc( cur'.arg ).
MallocStep == pc = "idle" /\ pc' = "hook"

\* The largest class capacity of the table.
MaxClassCapacity == xSizeList[heapMAXIMUM_POOL_NUM]

\* x rounded up to the alignment boundary.
RoundUp(x) == ((x + portBYTE_ALIGNMENT - 1) \div portBYTE_ALIGNMENT) * portBYTE_ALIGNMENT

\* Block size and adjusted size of the class a request of s bytes resolves to.
ClassCapacity(s) == xSizeList[ClassOf(s) + 1]

ClassAdjusted(s) == RoundUp(ClassCapacity(s) + heapSTRUCT_SIZE)

\* Bytes reserved behind the header of the block that p points into.
PayloadIn(b, p) ==
    IF (p - heapSTRUCT_SIZE) \in DOMAIN b
    THEN b[p - heapSTRUCT_SIZE] - heapSTRUCT_SIZE
    ELSE 0

Payload(p) == PayloadIn(blkSize, p)

Aligned(p) == p % portBYTE_ALIGNMENT = 0

\* The blocks on a free list, first to last (n bounds the walk).
RECURSIVE Chain(_, _, _)
Chain(h, a, n) ==
    IF a = NULL \/ n = 0 THEN <<>> ELSE <<a>> \o Chain(h, HdrNext(h, a), n - 1)

\* Every class's free list.
FreeLists ==
    [i \in 0 .. (heapMAXIMUM_POOL_NUM - 1) |->
        Chain(hdr, xPool[i].pxFirstFree, MaxBlocks + 1)]

(* ------------------------- C1 ----------------------------------------- *)

\* C1 as stated: every pvPortMalloc( s ) with 0 < s <= the largest class
\* capacity returns a non-NULL pointer that is aligned and has at least s bytes
\* behind its header.
C1_AlwaysSucceeds ==
    (pc = "hook" /\ cur.arg > 0 /\ cur.arg <= MaxClassCapacity)
        => /\ pvReturn # NULL
           /\ Aligned(pvReturn)
           /\ Payload(pvReturn) >= cur.arg

\* C1 amended: pvPortMalloc( s ) with 0 < s <= the largest class capacity
\* returns NULL exactly when the adjusted size of the class of s is not
\* strictly less than xFreeBytesRemaining; a pointer it returns is aligned and
\* has at least s bytes reserved behind its header.
C1_SucceedsWhenAdmitted ==
    [][(MallocStep /\ cur'.arg > 0 /\ cur'.arg <= MaxClassCapacity)
         => /\ (pvReturn' # NULL) <=> (ClassAdjusted(cur'.arg) < xPortGetFreeHeapSize)
            /\ pvReturn' # NULL => /\ Aligned(pvReturn')
                                   /\ PayloadIn(blkSize', pvReturn') >= cur'.arg]_vars

\* A request of 451 bytes was served from the pool of 500.
C1_Witness ==
    /\ pc = "hook" /\ cur.op = "malloc" /\ cur.arg = 451
    /\ pvReturn # NULL /\ Payload(pvReturn) >= 500

(* ------------------------- C2 ----------------------------------------- *)

\* C2: pvPortMalloc( s ) with s above the largest class capacity returns NULL
\* and leaves xFreeBytesRemaining, the carve cursor and every free list as they
\* were (the lazy initialisation of the first call aside).
C2_NoClassFits ==
    [][(MallocStep /\ cur'.arg > MaxClassCapacity)
         => /\ pvReturn' = NULL
            /\ xPortGetFreeHeapSize' = xPortGetFreeHeapSize
            /\ xHeapHasBeenInitialised
                  => (pxFreeHeap' = pxFreeHeap /\ FreeLists' = FreeLists)]_vars

(* ------------------------- C3 ----------------------------------------- *)

\* C3: the carve cursor never passes the end of the arena, and a request for
\* a class whose free list is empty fails when less than the class's adjusted
\* size is left between the cursor and the end of the arena.
C3_CursorInArena ==
    [][/\ pxFreeHeap' # NULL => pxFreeHeap' <= ArenaEnd'
       /\ (/\ MallocStep /\ xHeapHasBeenInitialised
           /\ ClassOf(cur'.arg) # NoPool
           /\ xPool[ClassOf(cur'.arg)].pxFirstFree = NULL
           /\ ArenaEnd - pxFreeHeap < ClassAdjusted(cur'.arg))
          => pvReturn' = NULL]_vars

(* ------------------------- C4 ----------------------------------------- *)

\* C4: when pvPortMalloc( s ) returned P, vPortFree( P ) followed, and then
\* pvPortMalloc( s' ) is called with s' of the same class as s, this call
\* returns P and does not move the carve cursor.
C4_LifoReuse ==
    [][(/\ MallocStep
        /\ cur.op = "free" /\ cur.lifo # NoPool
        /\ ClassOf(cur'.arg) = cur.lifo)
         => (pvReturn' = cur.arg /\ pxFreeHeap' = pxFreeHeap)]_vars

\* pvPortMalloc( 451 ) has just reused the block that a request of the same
\* class was given and that was freed right before.
C4_Witness ==
    /\ pc = "hook" /\ cur.op = "malloc" /\ cur.arg = 451
    /\ cur.lifo = ClassOf(500) /\ pvReturn # NULL

(* ------------------------- C5 ----------------------------------------- *)

\* C5: whenever every block handed out has been freed again,
\* xPortGetFreeHeapSize() is what it was right after initialisation.
C5_RoundTrip ==
    (pc = "idle" /\ live = {}) => xPortGetFreeHeapSize = configADJUSTED_HEAP_SIZE

\* All blocks are back after blocks of two classes were allocated and freed.
C5_Witness ==
    /\ pc = "idle" /\ live = {} /\ cur.op = "free" /\ cur.arg # NULL
    /\ xPool[ClassOf(500)].pxFirstFree # NULL
    /\ xPool[ClassOf(1000)].pxFirstFree # NULL

(* ------------------------- C6 ----------------------------------------- *)

\* C6: in a run that only allocates from one class, once less than the class's
\* adjusted size is left between the cursor and the end of the arena the next
\* allocation of the class fails; and after a failed allocation, a request of
\* another class that is still available (admitted by the counter, with a free
\* block or room in the arena) succeeds.
C6_Exhaustion ==
    [][/\ (/\ MallocStep
           /\ soleClass \in 0 .. (heapMAXIMUM_POOL_NUM - 1)
           /\ ClassOf(cur'.arg) = soleClass
           /\ ArenaEnd - pxFreeHeap < ClassAdjusted(cur'.arg))
          => pvReturn' = NULL
       /\ (/\ MallocStep
           /\ cur.op = "malloc" /\ cur.ret = NULL /\ ClassOf(cur.arg) # NoPool
           /\ ClassOf(cur'.arg) \notin {NoPool, ClassOf(cur.arg)}
           /\ ClassAdjusted(cur'.arg) < xPortGetFreeHeapSize
           /\ \/ xPool[ClassOf(cur'.arg)].pxFirstFree # NULL
              \/ ArenaEnd - pxFreeHeap >= ClassAdjusted(cur'.arg))
          => pvReturn' # NULL]_vars

(* ------------------------- C7 ----------------------------------------- *)

\* C7 as stated: pvPortMalloc( 0 ) is not rejected; it carves a block of the
\* header's size.
C7_ZeroConsumesHeader ==
    [][(MallocStep /\ cur'.arg = 0)
         => /\ pvReturn' # NULL
            /\ pxFreeHeap' = (IF xHeapHasBeenInitialised
                                THEN pxFreeHeap
                                ELSE pucAlignedHeap) + heapSTRUCT_SIZE]_vars

\* C7 amended: pvPortMalloc( 0 ) looks up no class and is rejected: it returns
\* NULL and leaves xFreeBytesRemaining, the carve cursor, the pools and every
\* header as they were (the lazy initialisation of the first call aside).
C7_ZeroRejected ==
    [][(MallocStep /\ cur'.arg = 0)
         => /\ pvReturn' = NULL
            /\ xPortGetFreeHeapSize' = xPortGetFreeHeapSize
            /\ xHeapHasBeenInitialised
                  => (pxFreeHeap' = pxFreeHeap /\ xPool' = xPool /\ hdr' = hdr)]_vars

\* pvPortMalloc( 0 ) has run on a heap with a block in use and a block free.
C7_Witness ==
    /\ pc = "hook" /\ cur.op = "malloc" /\ cur.arg = 0 /\ pvReturn = NULL
    /\ live # {}
    /\ \E i \in 0 .. (heapMAXIMUM_POOL_NUM - 1) : xPool[i].pxFirstFree # NULL

(* ------------------------- C8 ----------------------------------------- *)

\* C8: vPortFree( NULL ) leaves xFreeBytesRemaining, every pool's free list
\* (the heads and the links) and the carve cursor as they were and calls
\* vTaskSuspendAll not once.
C8_NullFree ==
    [][(pc = "idle" /\ cur'.op = "free" /\ cur'.arg = NULL)
         => /\ xPortGetFreeHeapSize' = xPortGetFreeHeapSize
            /\ xPool' = xPool /\ hdr' = hdr
            /\ pxFreeHeap' = pxFreeHeap
            /\ nSuspend' = 0
            /\ uxSchedulerSuspended' = uxSchedulerSuspended]_vars

\* vPortFree( NULL ) has run on a heap with a block in use and a block free.
C8_Witness ==
    /\ pc = "idle" /\ cur.op = "free" /\ cur.arg = NULL
    /\ live # {}
    /\ \E i \in 0 .. (heapMAXIMUM_POOL_NUM - 1) : xPool[i].pxFirstFree # NULL

(* ------------------------- C9 ----------------------------------------- *)

\* C9: xPortPoolInit called once the pools are initialised returns pdFALSE and
\* leaves the pools (block sizes and free lists), the headers, the cursor and
\* the counter as they were.
C9_SecondInit ==
    [][(pc = "idle" /\ cur'.op = "poolinit" /\ xPoolHasBeenInitialised)
         => /\ cur'.ret = pdFALSE
            /\ xPool' = xPool /\ hdr' = hdr
            /\ pxFreeHeap' = pxFreeHeap
            /\ xPortGetFreeHeapSize' = xPortGetFreeHeapSize
            /\ xPoolHasBeenInitialised' /\ xHeapHasBeenInitialised']_vars

\* xPortPoolInit has been called again while a free list held a block.
C9_Witness ==
    /\ pc = "idle" /\ cur.op = "poolinit" /\ cur.ret = pdFALSE
    /\ \E i \in 0 .. (heapMAXIMUM_POOL_NUM - 1) : xPool[i].pxFirstFree # NULL

(* ------------------------- C10 ---------------------------------------- *)

\* C10: when pvPortMalloc reaches the hook, the scheduler is no longer
\* suspended and the hook has not run; when pvPortMalloc has returned, the hook
\* has run once if it returned NULL and not at all otherwise.
C10_FailedHook ==
    /\ pc = "hook" => (uxSchedulerSuspended = 0 /\ hookCalls = 0)
    /\ (pc = "idle" /\ cur.op = "malloc")
          => hookCalls = (IF cur.ret = NULL THEN 1 ELSE 0)

\* pvPortMalloc( 500 ) has failed for want of capacity and the hook has run.
C10_Witness ==
    /\ pc = "idle" /\ cur.op = "malloc" /\ cur.arg = 500 /\ cur.ret = NULL
    /\ hookCalls = 1


(* ------------------------- C11 ---------------------------------------- *)

\* The size the request is tested with: the adjusted size of its class, or,
\* when no class fits, the request itself plus the header, rounded up.
RequestAdjusted(s) ==
    IF ClassOf(s) # NoPool THEN ClassAdjusted(s) ELSE RoundUp(s + heapSTRUCT_SIZE)

\* xFreeBytesRemaining does not admit a request of s bytes.
InsufficientCapacity(s) == s > 0 /\ ~(RequestAdjusted(s) < xPortGetFreeHeapSize)

\* C11: a pvPortMalloc( s ), s > 0, whose adjusted size is not strictly less
\* than xFreeBytesRemaining returns NULL and changes nothing: pxFreeHeap, every
\* pool's free list, every block header and xFreeBytesRemaining are as before
\* the call (a first call still initialises the heap and the pools).
C11_NoPartialChange ==
    [][(MallocStep /\ InsufficientCapacity(cur'.arg))
         => /\ pvReturn' = NULL
            /\ xPortGetFreeHeapSize' = xPortGetFreeHeapSize
            /\ blkSize' = blkSize
            /\ (xHeapHasBeenInitialised /\ xPoolHasBeenInitialised)
                  => /\ pxFreeHeap' = pxFreeHeap
                     /\ xPool' = xPool
                     /\ hdr' = hdr]_vars

\* A request of 500 bytes failed while blocks were live and a block of the
\* pool of 1000 was on its free list.
C11_Witness ==
    /\ pc = "hook" /\ cur.op = "malloc" /\ cur.arg = 500 /\ pvReturn = NULL
    /\ live # {}
    /\ xPool[PoolIndex(xPool, 1000)].pxFirstFree # NULL

(* ------------------------- C12 ---------------------------------------- *)

\* C12: every pvPortMalloc( s ), s > 0, that returns a pointer is served from
\* the smallest class whose block size is at least s: the header of the block
\* names that class, never a larger one and never one smaller than s.
C12_SmallestClass ==
    [][(MallocStep /\ cur'.arg > 0 /\ pvReturn' # NULL)
         => /\ ClassOf(cur'.arg) # NoPool
            /\ HdrPool(hdr', pvReturn' - heapSTRUCT_SIZE) = ClassOf(cur'.arg)]_vars

(* ------------------------- C13 ---------------------------------------- *)

\* C13: a pvPortMalloc( s ) that a class fits returns a pointer exactly when
\* the adjusted size of the class is strictly less than xFreeBytesRemaining;
\* otherwise it returns NULL, also when the free list of the class holds a
\* block, and that list keeps its blocks.
C13_AdmissionCheck ==
    [][(MallocStep /\ ClassOf(cur'.arg) # NoPool)
         => /\ (ClassAdjusted(cur'.arg) < xPortGetFreeHeapSize) => pvReturn' # NULL
            /\ (ClassAdjusted(cur'.arg) >= xPortGetFreeHeapSize)
                  => /\ pvReturn' = NULL
                     /\ FreeLists'[ClassOf(cur'.arg)] = FreeLists[ClassOf(cur'.arg)]]_vars

\* A request of 1000 bytes failed although a block of the pool of 1000 was on
\* its free list.
C13_Witness ==
    /\ pc = "hook" /\ cur.op = "malloc" /\ cur.arg = 1000 /\ pvReturn = NULL
    /\ FreeLists[ClassOf(1000)] # <<>>


(* ------------------------- C14 ---------------------------------------- *)

\* The nominal block size of the class that owns the block p points into
\* (nothing for a block that no class owns).
NominalOf(p) ==
    LET owner == HdrPool(hdr, p - heapSTRUCT_SIZE)
    IN  IF (p - heapSTRUCT_SIZE) \in DOMAIN hdr /\ owner < heapMAXIMUM_POOL_NUM
        THEN xSizeList[owner + 1]
        ELSE 0

RECURSIVE SumNominal(_)
SumNominal(S) ==
    IF S = {} THEN 0
    ELSE LET p == CHOOSE x \in S : TRUE IN NominalOf(p) + SumNominal(S \ {p})

\* C14: between operations, xFreeBytesRemaining is its initial value minus the
\* sum, over the live blocks, of the nominal block size of the owning class;
\* headers, alignment, failed requests and vPortFree( NULL ) count for nothing.
C14_Accounting ==
    pc = "idle" => xPortGetFreeHeapSize = configADJUSTED_HEAP_SIZE - SumNominal(live)


(* ------------------------- C15 ---------------------------------------- *)

\* The blocks carved so far, and the class the header of block a names.
Carved == DOMAIN blkSize

OwnerOf(a) == HdrPool(hdr, a)

\* C15: the class a block's header names is set when the block is carved and
\* never changes; every block on the free list of class K names K; vPortFree
\* puts the block on the list of exactly the class it names; and a block that
\* is handed out again goes to a request that resolves to the class it names.
C15_ClassConfinement ==
    /\ [][\A a \in Carved : HdrPool(hdr', a) = OwnerOf(a)]_vars
    /\ [](\A k \in DOMAIN FreeLists :
             \A n \in DOMAIN FreeLists[k] : OwnerOf(FreeLists[k][n]) = k)
    /\ [][(pc = "idle" /\ cur'.op = "free" /\ cur'.arg # NULL
             /\ OwnerOf(cur'.arg - heapSTRUCT_SIZE) < heapMAXIMUM_POOL_NUM)
            => \A k \in DOMAIN FreeLists :
                 FreeLists'[k] =
                    IF k = OwnerOf(cur'.arg - heapSTRUCT_SIZE)
                    THEN <<cur'.arg - heapSTRUCT_SIZE>> \o FreeLists[k]
                    ELSE FreeLists[k]]_vars
    /\ [][(MallocStep /\ pvReturn' # NULL
             /\ (pvReturn' - heapSTRUCT_SIZE) \in Carved
             /\ OwnerOf(pvReturn' - heapSTRUCT_SIZE) < heapMAXIMUM_POOL_NUM)
            => ClassOf(cur'.arg) = OwnerOf(pvReturn' - heapSTRUCT_SIZE)]_vars

\* A block of the pool of 500 is on its free list while the pool of 1000 has
\* a block of its own on its list, and a request of 1000 bytes was just served
\* from the latter.
C15_Witness ==
    /\ pc = "hook" /\ cur.op = "malloc" /\ cur.arg = 1000 /\ pvReturn # NULL
    /\ (pvReturn - heapSTRUCT_SIZE) \in Carved
    /\ FreeLists[ClassOf(500)] # <<>>
    /\ cur.lifo = ClassOf(1000)


(* ------------------------- C16 ---------------------------------------- *)

\* The last call was vPortFree( P ) of a block of the class that the request
\* cur'.arg of this step resolves to.
AfterFreeOfClass ==
    /\ cur.op = "free" /\ cur.arg # NULL
    /\ ClassOf(cur'.arg) # NoPool
    /\ OwnerOf(cur.arg - heapSTRUCT_SIZE) = ClassOf(cur'.arg)

\* The free list of the class of the request cur'.arg holds a block.
ClassListNonEmpty ==
    /\ ClassOf(cur'.arg) # NoPool
    /\ FreeLists[ClassOf(cur'.arg)] # <<>>

C17_NeverNested == maxNest <= 1


(* ------------------------- C18 ---------------------------------------- *)

\* Some task runs the suspended part of a pvPortMalloc in this step.
AnyMallocStep == \E t \in Tasks : taskPc[t] = "idle" /\ taskPc'[t] = "hook"

\* The list l after a push or a pop at its head, or as it was.
HeadChange(l, m) ==
    \/ m = l
    \/ l # <<>> /\ m = Tail(l)
    \/ m # <<>> /\ Tail(m) = l

\* C18: however the tasks' calls interleave, prvHeapInit and the pool loop of
\* xPortPoolInit have each run exactly once when the first pvPortMalloc has run
\* its suspended part, and never run again; afterwards no pvPortMalloc or
\* vPortFree moves pxFreeHeap back or resets a free list: a list changes by one
\* block at its head at most.
C18_InitOnce ==
    /\ [](/\ heapInits = (IF xHeapHasBeenInitialised THEN 1 ELSE 0)
          /\ poolInits = (IF xPoolHasBeenInitialised THEN 1 ELSE 0))
    /\ [][AnyMallocStep => /\ heapInits' = 1 /\ poolInits' = 1
                           /\ xHeapHasBeenInitialised'
                           /\ xPoolHasBeenInitialised']_vars
    /\ [][xHeapHasBeenInitialised
            => /\ pxFreeHeap' >= pxFreeHeap
               /\ pxFreeHeap' # pucAlignedHeap \/ pxFreeHeap = pucAlignedHeap
               /\ \A k \in DOMAIN FreeLists :
                     HeadChange(FreeLists[k], FreeLists'[k])]_vars

\* The first calls of both tasks are under way at once: each has run its
\* suspended part and got a block of its own, neither has returned yet.
C18_Witness ==
    /\ \A t \in Tasks : taskPc[t] = "hook" /\ taskRet[t] # NULL /\ held[t] = {}
    /\ taskRet["A"] # taskRet["B"]
    /\ heapInits = 1 /\ poolInits = 1


(* ------------------------- C19 ---------------------------------------- *)

\* The pointers task t has: those it holds and the one its pvPortMalloc is
\* about to return.
Owned(t) == held[t] \cup ({taskRet[t]} \ {NULL})

\* The blocks on the free lists of the classes, class after class.
RECURSIVE AllFree(_)
AllFree(k) ==
    IF k = heapMAXIMUM_POOL_NUM THEN <<>> ELSE FreeLists[k] \o AllFree(k + 1)

\* C19: however the tasks' calls interleave, no block is live in two tasks at
\* once, no live block is on a free list, no block is on the free lists twice,
\* and the regions [header, header + adjusted size) of different blocks do not
\* overlap.
C19_NoDoubleHandOut ==
    /\ \A t, u \in Tasks : t # u => Owned(t) \cap Owned(u) = {}
    /\ \A t \in Tasks : \A n \in DOMAIN AllFree(0) :
          (AllFree(0)[n] + heapSTRUCT_SIZE) \notin Owned(t)
    /\ \A n, m \in DOMAIN AllFree(0) : n # m => AllFree(0)[n] # AllFree(0)[m]
    /\ \A a, b \in Carved :
          a # b => (a + blkSize[a] <= b \/ b + blkSize[b] <= a)


(* ------------------------- C20 ---------------------------------------- *)

\* C20: xFreeBytesRemaining never wraps: in every state that calls respecting
\* the contract of vPortFree reach it is strictly greater than 0 and at most
\* its initial value.
C20_NeverWraps ==
    /\ xPortGetFreeHeapSize > 0
    /\ xPortGetFreeHeapSize <= configADJUSTED_HEAP_SIZE

====
